---- MODULE Spec2Model ----
(***************************************************************************)
(* ParrotJS: record-and-replay HTTP proxy.                                 *)
(*                                                                         *)
(* Model of the cache store (handlers/Cache.handler.ts) and of the request *)
(* router (index.ts, the ParrotServer class).  Node runs one handler at a *)
(* time: a request runs from its lookup to the point where it awaits the   *)
(* upstream fetch in one step, and from the fetch's settlement to the      *)
(* response in a second step.  Mode toggles (the dashboard's key bindings) *)
(* and out-of-band file deletions happen between those steps.              *)
(*                                                                         *)
(* Specifications.  Spec: the default configuration.  SpecCustom: a custom *)
(* match function is installed.  SpecHook: an onBeforeRequest hook is      *)
(* installed.  SpecCorrupt: the index file is broken and mended by hand    *)
(* while the server runs.  SpecIO: every read-modify-write of the index is *)
(* taken apart into its read and its write.                                *)
(*                                                                         *)
(* Encodings.  A JavaScript value is a record [t, v] (type tag, content).  *)
(* A url is the sequence of its '/'-separated segments ("/users/1" is      *)
(* <<"", "users", "1">>); UrlString joins it back for file paths.  A file  *)
(* or an inline field holds a text (a TLA+ string); JSONstringify and      *)
(* JSONparse convert between values and texts.  A nullable reference       *)
(* (CachedRequest | null) is a sequence of length 0 or 1.                  *)
(***************************************************************************)
EXTENDS Integers, Sequences, FiniteSets, TLC

\* ------------------------------------------------------------------ bounds
MaxRequests == 2      \* requests handled in one behaviour
MaxNow      == 1      \* Math.floor(Date.now() / 1000) ranges over 0..MaxNow
MaxDeletes  == 1      \* side-car files deleted out-of-band

\* ------------------------------------------------------- JavaScript values
JUndefined == [t |-> "undefined", v |-> ""]
JStr(s)    == [t |-> "string", v |-> s]
JObj(s)    == [t |-> "object", v |-> s]

\* !x
Falsy(x) == x = JUndefined \/ x = JStr("")

\* the JSON documents of the model: header maps, response bodies, request bodies
HeadersA == JObj("{\"content-type\": \"application/json\"}")
HeadersB == JObj("{\"content-type\": \"text/plain\"}")
DataA    == JObj("{\"name\": \"a\"}")
DataB    == JStr("b")
DataNone == JStr("")
BodyNone == JObj("{}")
BodyNew  == JObj("{\"n\": 1}")

JsonValues == {HeadersA, HeadersB, DataA, DataB, DataNone, BodyNone, BodyNew}

\* JSON.stringify(x, null, 4) of a defined value
JSONstringify(x) ==
  IF x.t = "string" THEN "\"" \o x.v \o "\"" ELSE x.v

\* JSON.parse(text): the value whose serialisation the text is; a SyntaxError
\* for any other text (a file path, the empty string)
JSONparses(text) == \E x \in JsonValues : JSONstringify(x) = text
JSONparse(text)  == CHOOSE x \in JsonValues : JSONstringify(x) = text

\* ------------------------------------------------------------ configuration
CachePath == "cache"

RECURSIVE UrlString(_)
UrlString(url) ==
  IF Len(url) = 1 THEN url[1]
  ELSE UrlString(SubSeq(url, 1, Len(url) - 1)) \o "/" \o url[Len(url)]

UrlUser1    == <<"", "users", "1">>
UrlUser42   == <<"", "users", "42">>
UrlUserStar == <<"", "users", "*">>

\* the header map of an incoming request, and the one the sample hook leaves
ReqHeaders     == JObj("{}")
ReqHeadersAuth == JObj("{\"authorization\": \"Bearer AUTH_TOKEN_EXAMPLE\"}")

\* the incoming requests
Requests ==
  { [method |-> "GET",  url |-> UrlUser1, headers |-> ReqHeaders, body |-> BodyNone],
    [method |-> "POST", url |-> UrlUser1, headers |-> ReqHeaders, body |-> BodyNew] }

\* the replies of the remote API
UpstreamReplies ==
  { [status |-> 200, headers |-> HeadersA, data |-> DataA],
    [status |-> 201, headers |-> HeadersB, data |-> DataNone],
    [status |-> 404, headers |-> HeadersB, data |-> DataB] }

\* the values Math.random() can make generateHumanReadableId(5) return
Ids == {"AAAAA", "BBBBB"}

\* ------------------------------------------------------------- file system
\* files: the side-car files under the cache root, path -> text
existsSync(x, files) == x.t = "string" /\ x.v \in DOMAIN files

removeSync(path, files) == [p \in DOMAIN files \ {path} |-> files[p]]

outputFileSync(path, text, files) ==
  [p \in DOMAIN files \cup {path} |-> IF p = path THEN text ELSE files[p]]

\* ----------------------------------------------------------- match function
\* one url segment of a stored entry against the request's segment
SegmentMatches(el, requested) == el = requested \/ el = "*"

StoredEntryMatches(item, request) ==
  /\ item.method = request.method
  /\ Len(item.url) = Len(request.url)
  /\ \A i \in 1..Len(item.url) : SegmentMatches(item.url[i], request.url[i])

\* config.matchBy, the default match function: the first entry in index order
\* with the request's method and a segment-wise equal or wildcard url.
\* A match function's outcome is [threw, match].
DefaultMatchBy(request, cache) ==
  LET hits == {i \in 1..Len(cache) : StoredEntryMatches(cache[i], request)} IN
  [threw |-> FALSE,
   match |-> IF hits = {} THEN <<>>
             ELSE <<cache[CHOOSE i \in hits : \A j \in hits : i <= j]>>]

\* the matchBy of the sample functions file, installed as customUserFn.matchBy:
\* the store calls it with (request, cache), so its third parameter, logger, is
\* undefined, and logger.info throws on the first entry with the request's method
ExampleMatchBy(request, cache) ==
  IF \E i \in 1..Len(cache) : cache[i].method = request.method
  THEN [threw |-> TRUE,  match |-> <<>>]
  ELSE [threw |-> FALSE, match |-> <<>>]

\* a custom match function that throws on every call
ThrowingMatchBy(request, cache) == [threw |-> TRUE, match |-> <<>>]

\* config.customUserFn?.matchBy
CustomKinds == {"undefined", "throwing", "example"}

\* matchFn(this.request, cache)
CallMatchFn(custom, request, cache) ==
  CASE custom = "throwing" -> ThrowingMatchBy(request, cache)
    [] custom = "example"  -> ExampleMatchBy(request, cache)
    [] OTHER               -> DefaultMatchBy(request, cache)

\* -------------------------------------------------------------- cache store
\* faulty variant: the body file of an entry without headers file is left behind
SweepItemLeavesBody(item, files) ==
  LET h == item.responseHeaders
      b == item.responseBody
  IN  IF existsSync(h, files) /\ b # JUndefined /\ existsSync(b, files)
      THEN [keep |-> TRUE, files |-> files]
      ELSE IF ~existsSync(h, files)
      THEN [keep |-> FALSE, files |-> files]
      ELSE IF b # JUndefined /\ ~existsSync(b, files)
      THEN [keep |-> FALSE, files |-> removeSync(h.v, files)]
      ELSE [keep |-> FALSE, files |-> files]

\* one item of the filter of cleanupRemovedEntries: [keep, files]
SweepItem(item, files) ==
  LET h == item.responseHeaders
      b == item.responseBody
  IN  IF existsSync(h, files) /\ b # JUndefined /\ existsSync(b, files)
      THEN [keep |-> TRUE, files |-> files]
      ELSE IF ~existsSync(h, files)
      THEN IF b # JUndefined /\ existsSync(b, files)
           THEN [keep |-> FALSE, files |-> removeSync(b.v, files)]
           ELSE [keep |-> FALSE, files |-> files]
      ELSE IF b # JUndefined /\ ~existsSync(b, files)
      THEN IF existsSync(h, files)
           THEN [keep |-> FALSE, files |-> removeSync(h.v, files)]
           ELSE [keep |-> FALSE, files |-> files]
      ELSE [keep |-> FALSE, files |-> files]

\* cache.filter(...): the items in index order, each seeing the removals made
\* for the items before it
RECURSIVE SweepFilter(_, _, _)
SweepFilter(cache, kept, files) ==
  IF cache = <<>> THEN [index |-> kept, files |-> files]
  ELSE LET r == SweepItem(Head(cache), files) IN
       SweepFilter(Tail(cache),
                   IF r.keep THEN Append(kept, Head(cache)) ELSE kept,
                   r.files)

\* cleanupRemovedEntries(): [index, files] after the sweep
cleanupRemovedEntries(index, files) ==
  IF Len(index) > 0 THEN SweepFilter(index, <<>>, files)
  ELSE [index |-> index, files |-> files]

\* parseResponseItem(stored, cached, key) on st = [cached, index, files, sweeps,
\* gone, raised]: gone is the file another process removes between the
\* existsSync and the readFileSync of this lookup, raised whether readFileSync
\* has thrown, after which nothing more of parseCachedResponse runs
parseResponseItem(stored, st, key) ==
  LET x == stored[key] IN
  IF st.raised THEN st
  ELSE IF ~Falsy(x) /\ x.t = "string"
  THEN IF JSONparses(x.v)
       THEN [st EXCEPT !.cached = [@ EXCEPT ![key] = JSONparse(x.v)]]
       ELSE IF existsSync(x, st.files)
       THEN IF st.gone = <<x.v>>
            THEN [st EXCEPT !.files = removeSync(x.v, @), !.gone = <<>>, !.raised = TRUE]
            ELSE [st EXCEPT !.cached = [@ EXCEPT ![key] = JSONparse(st.files[x.v])]]
       ELSE LET s == cleanupRemovedEntries(st.index, st.files) IN
            [st EXCEPT !.index = s.index, !.files = s.files, !.sweeps = @ + 1]
  ELSE st

\* new Date(timestamp * 1000), as epoch milliseconds
ToDate(timestamp) == timestamp * 1000

\* parseCachedResponse(stored): [cached, index, files, sweeps, gone, raised];
\* the value parseResponseItem returns is not used, the copy is returned in
\* every case in which nothing was thrown
parseCachedResponse(stored, index, files, gone) ==
  LET st0 == [cached |-> stored, index |-> index, files |-> files, sweeps |-> 0,
              gone |-> gone, raised |-> FALSE]
      st1 == parseResponseItem(stored, st0, "responseBody")
      st2 == parseResponseItem(stored, st1, "responseHeaders")
  IN  [st2 EXCEPT !.cached = [@ EXCEPT !.timestamp = ToDate(stored.timestamp)]]

\* the stored entry the getter goes on to materialize: the custom function's
\* match, the default function's match when the custom one threw
MatchWithFallback(custom, request, cache) ==
  LET first == CallMatchFn(custom, request, cache) IN
  IF first.threw THEN DefaultMatchBy(request, cache).match ELSE first.match

\* get cachedRequest(): [hit, index, files] and, for the record, the stored
\* entry that was materialized, the number of sweeps, whether matchFn threw and
\* whether the getter threw.  parseCachedResponse is called inside the try
\* block for matchFn's match, and inside the catch block, where nothing
\* catches, for the default function's match: a readFileSync that throws in
\* the try block leads to the catch block, one that throws in the catch block
\* leaves the getter.
cachedRequest(request, index, files, custom, gone) ==
  LET m == IF Len(index) > 0 THEN MatchWithFallback(custom, request, index) ELSE <<>>
      threw == Len(index) > 0 /\ CallMatchFn(custom, request, index).threw
  IN  IF m # <<>>
      THEN LET p == parseCachedResponse(m[1], index, files, gone) IN
           IF ~p.raised
           THEN [hit |-> <<p.cached>>, index |-> p.index, files |-> p.files,
                 matched |-> m, sweeps |-> p.sweeps, threw |-> threw, raised |-> FALSE]
           ELSE IF threw
           THEN [hit |-> <<>>, index |-> p.index, files |-> p.files,
                 matched |-> m, sweeps |-> p.sweeps, threw |-> threw, raised |-> TRUE]
           ELSE LET m2 == DefaultMatchBy(request, index).match IN
                IF m2 # <<>>
                THEN LET p2 == parseCachedResponse(m2[1], p.index, p.files, p.gone) IN
                     [hit |-> <<p2.cached>>, index |-> p2.index, files |-> p2.files,
                      matched |-> m2, sweeps |-> p.sweeps + p2.sweeps, threw |-> threw,
                      raised |-> FALSE]
                ELSE [hit |-> <<>>, index |-> p.index, files |-> p.files,
                      matched |-> m2, sweeps |-> p.sweeps, threw |-> threw,
                      raised |-> FALSE]
      ELSE [hit |-> <<>>, index |-> index, files |-> files,
            matched |-> m, sweeps |-> 0, threw |-> threw, raised |-> FALSE]

\* the file is removed under this lookup: the lookup finds it with existsSync
\* and then fails to read it
RaceHits(request, index, files, custom, gone) ==
  /\ gone # <<>>
  /\ Len(index) > 0
  /\ LET m == MatchWithFallback(custom, request, index) IN
     m # <<>> /\ parseCachedResponse(m[1], index, files, gone).raised

\* the side-car files without the one that is removed under the lookup
Without(gone, files) == IF gone = <<>> THEN files ELSE removeSync(gone[1], files)

\* the side-car paths of a capture
BodyPath(request, id)    == CachePath \o UrlString(request.url) \o "_body_" \o id \o ".json"
HeadersPath(request, id) == CachePath \o UrlString(request.url) \o "_headers_" \o id \o ".json"

\* createResponseBodyFile(response, id): [path, files]
createResponseBodyFile(request, response, id, files) ==
  IF Falsy(response.data) THEN [path |-> JUndefined, files |-> files]
  ELSE [path  |-> JStr(BodyPath(request, id)),
        files |-> outputFileSync(BodyPath(request, id), JSONstringify(response.data), files)]

\* createResponseHeadersFile(response, id): [path, files]
createResponseHeadersFile(request, response, id, files) ==
  IF Falsy(response.headers) THEN [path |-> JStr(""), files |-> files]
  ELSE [path  |-> JStr(HeadersPath(request, id)),
        files |-> outputFileSync(HeadersPath(request, id), JSONstringify(response.headers), files)]

\* the entry a save writes
NewEntry(id, request, response, headersFile, bodyFile, now) ==
  [id |-> id, method |-> request.method, url |-> request.url, body |-> request.body,
   code |-> response.status, responseHeaders |-> headersFile,
   responseBody |-> bodyFile, timestamp |-> now]

\* cachedRequest?.id
HasId(existing) == existing # <<>> /\ existing[1].id # ""

\* faulty variant: the entry is appended also when there is an existingMatch
AlwaysAppend(cache, existing, entry) == Append(cache, entry)

\* newCache of saveCacheRequest
NewCache(cache, existing, entry) ==
  IF HasId(existing)
  THEN [i \in 1..Len(cache) |-> IF cache[i].id = existing[1].id THEN entry ELSE cache[i]]
  ELSE Append(cache, entry)

\* saveCacheRequest(response, cachedRequest): [index, files]; generated is the
\* id generateHumanReadableId returns when it is called
saveCacheRequest(request, response, existing, index, files, now, generated) ==
  LET requestId == IF HasId(existing) THEN existing[1].id ELSE generated
      b == createResponseBodyFile(request, response, requestId, files)
      h == createResponseHeadersFile(request, response, requestId, b.files)
      entry == NewEntry(requestId, request, response, h.path, b.path, now)
  IN  [index |-> NewCache(index, existing, entry), files |-> h.files]

\* ---------------------------------------------------------- onBeforeRequest
\* A hook's outcome is [threw, request]: whether the call threw, and the
\* request the local variable req refers to after the call.  The hook is
\* handed the request object itself, so what it wrote into the object before
\* throwing stays written.

\* the onBeforeRequest of the sample functions file: sets the authorization
\* header and returns the request
ExampleOnBeforeRequest(request) ==
  [threw |-> FALSE, request |-> [request EXCEPT !.headers = ReqHeadersAuth]]

\* a hook that throws before it touches the request
ThrowingOnBeforeRequest(request) == [threw |-> TRUE, request |-> request]

\* a hook that sets the authorization header and then throws
MutatingOnBeforeRequest(request) ==
  [threw |-> TRUE, request |-> [request EXCEPT !.headers = ReqHeadersAuth]]

\* a hook that returns the request with its url rewritten
RewritingOnBeforeRequest(request) ==
  [threw |-> FALSE, request |-> [request EXCEPT !.url = UrlUser42]]

\* config.customUserFn?.onBeforeRequest
HookKinds == {"undefined", "example", "throwing", "mutating", "rewriting"}

\* the inner try/catch of fetchExternalAPIAndCacheResponse
CallOnBeforeRequest(hook, request) ==
  CASE hook = "example"  -> ExampleOnBeforeRequest(request)
    [] hook = "throwing" -> ThrowingOnBeforeRequest(request)
    [] hook = "mutating" -> MutatingOnBeforeRequest(request)
    [] hook = "rewriting" -> RewritingOnBeforeRequest(request)
    [] OTHER             -> [threw |-> FALSE, request |-> request]

\* the request axios is called with: externalUrl is computed from the incoming
\* request before the hook runs
AxiosRequest(incoming, outgoing) ==
  [method |-> outgoing.method, url |-> incoming.url, headers |-> outgoing.headers,
   body |-> outgoing.body]

\* ------------------------------------------------------------------- router
\* faulty variant: a hit is served before overrideMode is looked at
RouterBranchCacheFirst(skip, override, bypass, hit) ==
  IF skip THEN (IF hit THEN "serveCached" ELSE "notFound")
  ELSE IF hit /\ ~bypass THEN "serveCached"
  ELSE IF override /\ ~bypass THEN "fetchWithMatch"
  ELSE "fetch"

\* faulty variant: overrideMode is looked at before skipRemote
RouterBranchOverrideFirst(skip, override, bypass, hit) ==
  IF override /\ ~bypass THEN "fetchWithMatch"
  ELSE IF skip THEN (IF hit THEN "serveCached" ELSE "notFound")
  ELSE IF hit /\ ~bypass THEN "serveCached"
  ELSE "fetch"

\* the branch of the router middleware, from the three modes as read at the
\* decision and whether the lookup returned an entry
RouterBranch(skip, override, bypass, hit) ==
  IF skip THEN (IF hit THEN "serveCached" ELSE "notFound")
  ELSE IF override /\ ~bypass THEN "fetchWithMatch"
  ELSE IF hit /\ ~bypass THEN "serveCached"
  ELSE "fetch"

\* faulty variant: the save is guarded by the bypassCache read at the decision
SaveAllowedAtDecision(bypassNow, bypassAtDecision) == ~bypassAtDecision

\* the guard of the save after the fetch: bypassCache as read when the fetch
\* has settled
SaveAllowed(bypassNow, bypassAtDecision) == ~bypassNow

\* axios's default validateStatus: the promise resolves for a 2xx status and
\* rejects for any other
validateStatus(status) == status >= 200 /\ status < 300

\* what the caller receives
NoResponse == [kind |-> "none", statusCode |-> 0, headers |-> JUndefined, body |-> JUndefined]

\* useCachedResponse(cachedRequest, res)
useCachedResponse(cached) ==
  [kind |-> "cached",
   statusCode |-> IF cached.code # 0 THEN cached.code ELSE 200,
   headers |-> cached.responseHeaders,
   body |-> cached.responseBody]

\* handleSkipRemoteNotFound(res)
handleSkipRemoteNotFound ==
  [kind |-> "notFound", statusCode |-> 404, headers |-> JUndefined, body |-> JUndefined]

\* sendResponse(res, response): headers and body of the upstream response, the
\* status code is left at the transport's default
sendResponse(response) ==
  [kind |-> "fresh", statusCode |-> 200, headers |-> response.headers, body |-> response.data]

\* the router's catch block sends nothing and calls next(): no response comes
\* from the router, the request falls through to the framework's final handler
nextUnhandled ==
  [kind |-> "unhandled", statusCode |-> 404, headers |-> JUndefined, body |-> JUndefined]

\* res.status(500).send(error)
sendError == [kind |-> "error", statusCode |-> 500, headers |-> JUndefined, body |-> JUndefined]

\* ------------------------------------------------------------------- state
VARIABLES
  index,          \* the index file: the sequence of stored entries
  corrupt,        \* the index file's text is not parseable JSON
  files,          \* the side-car files: path -> text
  bypassCache,    \* ServerConfig.bypassCache
  overrideMode,   \* ServerConfig.overrideMode
  skipRemote,     \* ServerConfig.skipRemote
  customMatchBy,  \* ServerConfig.customUserFn?.matchBy
  customOnBeforeRequest,  \* ServerConfig.customUserFn?.onBeforeRequest
  now,            \* Math.floor(Date.now() / 1000) as last read by a save
  deleted,        \* number of out-of-band deletions so far
  started,        \* number of requests received so far
  pc,             \* per request: "idle", "fetching" (awaiting axios), "done"
  req,            \* per request: req, the incoming request as the hook left it
  existingMatch,  \* per request: the cachedRequest given to fetchExternalAPIAndCacheResponse
  res,            \* per request: the response sent to the caller
  emitted,        \* per request: the events emitted on the server
  obs,            \* per request: what the handler read and did (history)
  thread,         \* the request whose read-modify-write of the index holds the
                  \* JavaScript thread, 0 when none does
  pending         \* per request: that read-modify-write, from its read to its write

vars == <<index, corrupt, files, bypassCache, overrideMode, skipRemote, customMatchBy,
          customOnBeforeRequest, now,
          deleted, started, pc, req, existingMatch, res, emitted, obs, thread, pending>>

\* the variables of a read-modify-write in progress
ioVars == <<thread, pending>>

ReqIds == 1..MaxRequests

NoReply == [status |-> 0, headers |-> JUndefined, data |-> JUndefined]

NoObs ==
  [skip |-> FALSE, override |-> FALSE, bypass |-> FALSE,  \* modes read at the decision
   branch |-> "none",
   hit |-> <<>>,            \* what the lookup returned
   matched |-> <<>>,        \* the stored entry the lookup materialized
   seen |-> <<>>,           \* the index the lookup read
   threw |-> FALSE,         \* the custom match function threw
   raised |-> FALSE,        \* the lookup threw
   filesSeen |-> <<>>,      \* the side-car files the lookup found
   received |-> <<>>,       \* the request as the router received it
   hookThrew |-> FALSE,     \* onBeforeRequest threw
   sent |-> <<>>,           \* the request axios was called with
   sweeps |-> 0,            \* sweeps run by the lookup
   fetches |-> 0,           \* upstream calls issued
   settled |-> "none",      \* "resolved", "rejected"
   reply |-> NoReply,       \* the upstream's reply, when it replied
   bypassAtSave |-> FALSE,  \* bypassCache read after the fetch
   saves |-> 0,             \* calls of saveCacheRequest
   savedWith |-> <<>>,      \* the existingMatch of that call
   savedAt |-> 0,           \* the time of that call
   lenBefore |-> 0,         \* index length before the save
   lenAfter |-> 0,          \* index length after the save
   alone |-> TRUE]          \* no other request was in flight during this one

\* a store captured earlier from GET /users/42 whose url was then edited to a wildcard
SidecarEntry ==
  [id |-> "AAAAA", method |-> "GET", url |-> UrlUserStar, body |-> BodyNone, code |-> 200,
   responseHeaders |-> JStr("cache/users/42_headers_AAAAA.json"),
   responseBody |-> JStr("cache/users/42_body_AAAAA.json"), timestamp |-> 0]

SidecarFiles ==
  [p \in {"cache/users/42_headers_AAAAA.json", "cache/users/42_body_AAAAA.json"} |->
     IF p = "cache/users/42_headers_AAAAA.json"
     THEN JSONstringify(HeadersA) ELSE JSONstringify(DataB)]

\* an entry written by hand, headers and body inline as JSON strings
InlineEntry ==
  [id |-> "hand1", method |-> "GET", url |-> UrlUserStar, body |-> BodyNone, code |-> 201,
   responseHeaders |-> JStr(JSONstringify(HeadersB)),
   responseBody |-> JStr(JSONstringify(DataA)), timestamp |-> 0]

NoFiles == [p \in {} |-> ""]

InitialStores ==
  { [index |-> <<>>, files |-> NoFiles],
    [index |-> <<SidecarEntry>>, files |-> SidecarFiles],
    [index |-> <<InlineEntry>>, files |-> NoFiles] }

\* a store whose headers file was removed while the server was not running
DesyncedStores ==
  { [index |-> <<SidecarEntry>>,
     files |-> [p \in {"cache/users/42_body_AAAAA.json"} |-> JSONstringify(DataB)]] }

InitFrom(stores, customs, hooks) ==
  /\ \E s \in stores : index = s.index /\ files = s.files
  /\ corrupt = FALSE
  /\ bypassCache \in BOOLEAN
  /\ overrideMode \in BOOLEAN
  /\ skipRemote \in BOOLEAN
  /\ customMatchBy \in customs
  /\ customOnBeforeRequest \in hooks
  /\ now = 0
  /\ deleted = 0
  /\ started = 0
  /\ pc = [r \in ReqIds |-> "idle"]
  /\ req = [r \in ReqIds |-> CHOOSE q \in Requests : TRUE]
  /\ existingMatch = [r \in ReqIds |-> <<>>]
  /\ res = [r \in ReqIds |-> NoResponse]
  /\ emitted = [r \in ReqIds |-> <<>>]
  /\ obs = [r \in ReqIds |-> NoObs]
  /\ thread = 0
  /\ pending = [r \in ReqIds |-> <<>>]

InitWith(customs, hooks) == InitFrom(InitialStores, customs, hooks)

Init == InitWith({"undefined"}, {"undefined"})

\* the server started on a store that is in sync or not
InitIO == InitFrom(InitialStores \cup DesyncedStores, {"undefined"}, {"undefined"})

\* the server configured with a custom match function that throws
InitCustom == InitWith({"throwing", "example"}, {"undefined"})

\* the server configured with an onBeforeRequest hook
InitHook == InitWith({"undefined"}, HookKinds \ {"undefined"})

\* ------------------------------------------------------------------ actions
\* faulty variant: a callback is run while another one is on the stack
CanRunAnytime(holder) == TRUE

\* Node runs a callback (a request handler, the continuation of an await, a key
\* binding) when no other callback is on the stack; the store reads and writes
\* its files with synchronous calls, so a read-modify-write of the index stays
\* on the stack from its read to its write
CanRun(holder) == holder = 0

\* CacheHandler.serverInstance after ParrotServer.init: CacheHandler.init is
\* called with the configuration only, its server parameter defaults to null
serverInstance == <<>>

\* the events the sweeps of a lookup emit: serverInstance?.emit(LOG_WARN, ...)
SweepWarnings(sweeps) ==
  IF serverInstance = <<>> THEN <<>> ELSE [i \in 1..sweeps |-> "LOG_WARN"]

\* the router middleware after the lookup, whose outcome is look, up to its
\* return or to the await of the upstream fetch; when the lookup threw, the
\* catch block: the error event, no response, then next().  found is the
\* index and the side-car files the lookup found.
RouteLookup(r, q, found, look) ==
  LET branch == IF look.raised THEN "catch"
                ELSE RouterBranch(skipRemote, overrideMode, bypassCache, look.hit # <<>>)
      fetch  == branch \in {"fetchWithMatch", "fetch"}
      hook   == CallOnBeforeRequest(customOnBeforeRequest, q)
      warn   == IF skipRemote THEN <<"LOG_WARN">> ELSE <<>>
  IN  /\ index' = look.index
      /\ files' = look.files
      /\ req' = [req EXCEPT ![r] = IF fetch THEN hook.request ELSE q]
      /\ pc' = [pc EXCEPT ![r] = IF fetch THEN "fetching" ELSE "done"]
      /\ existingMatch' = [existingMatch EXCEPT ![r] =
                             IF branch = "fetchWithMatch" THEN look.hit ELSE <<>>]
      /\ res' = [res EXCEPT ![r] =
                   CASE branch = "serveCached" -> useCachedResponse(look.hit[1])
                     [] branch = "notFound"    -> handleSkipRemoteNotFound
                     [] branch = "catch"       -> nextUnhandled
                     [] OTHER                  -> NoResponse]
      /\ emitted' = [emitted EXCEPT ![r] =
                       SweepWarnings(look.sweeps) \o
                       (IF branch = "catch" THEN <<"LOG_ERROR">>
                        ELSE warn \o (IF branch = "notFound" THEN <<>> ELSE <<"LOG_INFO">>))]
      /\ obs' = [o \in ReqIds |->
                   IF o = r
                   THEN [NoObs EXCEPT !.skip = skipRemote, !.override = overrideMode,
                                      !.bypass = bypassCache, !.branch = branch,
                                      !.hit = look.hit, !.matched = look.matched,
                                      !.seen = found.index,
                                      !.filesSeen = found.files,
                                      !.threw = look.threw, !.sweeps = look.sweeps,
                                      !.raised = look.raised,
                                      !.received = <<q>>,
                                      !.hookThrew = fetch /\ hook.threw,
                                      !.sent = IF fetch
                                               THEN <<AxiosRequest(q, hook.request)>>
                                               ELSE <<>>,
                                      !.fetches = IF fetch THEN 1 ELSE 0,
                                      !.alone = \A o2 \in ReqIds : pc[o2] # "fetching"]
                   ELSE IF pc[o] = "fetching" THEN [obs[o] EXCEPT !.alone = FALSE]
                   ELSE obs[o]]

\* the router middleware on the index it read, up to its return or to the await
\* of the upstream fetch, with the file that is removed under its lookup
Route(r, q, read, gone) ==
  RouteLookup(r, q, [index |-> read, files |-> Without(gone, files)],
              cachedRequest(q, read, files, customMatchBy, gone))

\* the router middleware, from the lookup to its return or to the await, with
\* the file another process removes under the lookup
ReceiveWhile(r, q, gone) ==
  /\ pc[r] = "idle"
  /\ r = started + 1
  /\ ~corrupt
  /\ CanRun(thread)
  /\ started' = started + 1
  /\ deleted' = deleted + Len(gone)
  /\ Route(r, q, index, gone)
  /\ UNCHANGED <<corrupt, bypassCache, overrideMode, skipRemote, customMatchBy,
                 customOnBeforeRequest, now, ioVars>>

\* the router middleware, from the lookup to its return or to the await
Receive(r, q) == ReceiveWhile(r, q, <<>>)

\* the same while another process removes a side-car file between the
\* lookup's existsSync and its readFileSync of that file
ReceiveRacing(r, q, path) ==
  /\ deleted < MaxDeletes
  /\ RaceHits(q, index, files, customMatchBy, <<path>>)
  /\ ReceiveWhile(r, q, <<path>>)

\* the router middleware when the lookup's JSON.parse of the index file throws:
\* the catch block emits the error event, then next()
ReceiveCorrupt(r, q) ==
  /\ pc[r] = "idle"
  /\ CanRun(thread)
  /\ r = started + 1
  /\ corrupt
  /\ started' = started + 1
  /\ req' = [req EXCEPT ![r] = q]
  /\ pc' = [pc EXCEPT ![r] = "done"]
  /\ res' = [res EXCEPT ![r] = nextUnhandled]
  /\ emitted' = [emitted EXCEPT ![r] = <<"LOG_ERROR">>]
  /\ obs' = [o \in ReqIds |->
               IF o = r
               THEN [NoObs EXCEPT !.skip = skipRemote, !.override = overrideMode,
                                  !.bypass = bypassCache, !.branch = "catch",
                                  !.received = <<q>>,
                                  !.alone = \A o2 \in ReqIds : pc[o2] # "fetching"]
               ELSE IF pc[o] = "fetching" THEN [obs[o] EXCEPT !.alone = FALSE]
               ELSE obs[o]]
  /\ UNCHANGED <<index, corrupt, files, existingMatch, bypassCache, overrideMode,
                 skipRemote, customMatchBy, customOnBeforeRequest, now, deleted>>
  /\ UNCHANGED ioVars

\* the upstream replied with a status axios accepts: save unless bypassCache,
\* then send the fresh response
FetchResolves(r, reply, generated, t) ==
  /\ pc[r] = "fetching"
  /\ CanRun(thread)
  /\ validateStatus(reply.status)
  /\ t >= now
  /\ ~(corrupt /\ SaveAllowed(bypassCache, obs[r].bypass))
  /\ LET save == SaveAllowed(bypassCache, obs[r].bypass)
         s == saveCacheRequest(req[r], reply, existingMatch[r], index, files, t, generated)
     IN  /\ index' = IF save THEN s.index ELSE index
         /\ files' = IF save THEN s.files ELSE files
         /\ obs' = [obs EXCEPT ![r] =
                      [@ EXCEPT !.settled = "resolved", !.reply = reply,
                                !.bypassAtSave = bypassCache,
                                !.saves = IF save THEN 1 ELSE 0,
                                !.savedWith = IF save THEN existingMatch[r] ELSE <<>>,
                                !.savedAt = IF save THEN t ELSE 0,
                                !.lenBefore = IF save THEN Len(index) ELSE 0,
                                !.lenAfter = IF save THEN Len(s.index) ELSE 0]]
  /\ pc' = [pc EXCEPT ![r] = "done"]
  /\ res' = [res EXCEPT ![r] = sendResponse(reply)]
  /\ now' = IF SaveAllowed(bypassCache, obs[r].bypass) THEN t ELSE now
  /\ UNCHANGED <<corrupt, bypassCache, overrideMode, skipRemote, customMatchBy,
                 customOnBeforeRequest, deleted,
                 started, req, existingMatch, emitted>>
  /\ UNCHANGED ioVars

\* the upstream replied but the save's JSON.parse of the index file throws,
\* after the side-car files were written: the catch block
SaveThrows(r, reply, generated) ==
  /\ pc[r] = "fetching"
  /\ CanRun(thread)
  /\ validateStatus(reply.status)
  /\ corrupt /\ SaveAllowed(bypassCache, obs[r].bypass)
  /\ LET requestId == IF HasId(existingMatch[r]) THEN existingMatch[r][1].id ELSE generated
         b == createResponseBodyFile(req[r], reply, requestId, files)
         h == createResponseHeadersFile(req[r], reply, requestId, b.files)
     IN  files' = h.files
  /\ pc' = [pc EXCEPT ![r] = "done"]
  /\ res' = [res EXCEPT ![r] = sendError]
  /\ emitted' = [emitted EXCEPT ![r] = Append(@, "LOG_ERROR")]
  /\ obs' = [obs EXCEPT ![r] = [@ EXCEPT !.settled = "resolved", !.reply = reply,
                                         !.bypassAtSave = bypassCache]]
  /\ UNCHANGED <<index, corrupt, bypassCache, overrideMode, skipRemote, customMatchBy,
                 customOnBeforeRequest, now, deleted, started, req, existingMatch>>
  /\ UNCHANGED ioVars

\* the upstream replied with a status axios rejects: the catch block
FetchRejectsStatus(r, reply) ==
  /\ pc[r] = "fetching"
  /\ CanRun(thread)
  /\ ~validateStatus(reply.status)
  /\ pc' = [pc EXCEPT ![r] = "done"]
  /\ res' = [res EXCEPT ![r] = sendError]
  /\ emitted' = [emitted EXCEPT ![r] = Append(@, "LOG_ERROR")]
  /\ obs' = [obs EXCEPT ![r] = [@ EXCEPT !.settled = "rejected", !.reply = reply,
                                         !.bypassAtSave = bypassCache]]
  /\ UNCHANGED <<index, corrupt, files, bypassCache, overrideMode, skipRemote,
                 customMatchBy, customOnBeforeRequest, now, deleted, started, req,
                 existingMatch>>
  /\ UNCHANGED ioVars

\* the upstream did not reply (network failure): the catch block
FetchFails(r) ==
  /\ pc[r] = "fetching"
  /\ CanRun(thread)
  /\ pc' = [pc EXCEPT ![r] = "done"]
  /\ res' = [res EXCEPT ![r] = sendError]
  /\ emitted' = [emitted EXCEPT ![r] = Append(@, "LOG_ERROR")]
  /\ obs' = [obs EXCEPT ![r] = [@ EXCEPT !.settled = "rejected",
                                         !.bypassAtSave = bypassCache]]
  /\ UNCHANGED <<index, corrupt, files, bypassCache, overrideMode, skipRemote,
                 customMatchBy, customOnBeforeRequest, now, deleted, started, req,
                 existingMatch>>
  /\ UNCHANGED ioVars

\* The environment (the dashboard's key bindings, deletions in the cache
\* directory) is modelled for as long as a request can still observe it: the
\* router reads skipRemote and overrideMode, and the lookup reads the files,
\* when a request is received; bypassCache is read again after the fetch.
MoreToCome == started < MaxRequests
InFlight   == \E r \in 1..MaxRequests : pc[r] = "fetching"
Sweeping   == \E r \in 1..MaxRequests : pc[r] = "sweeping"

\* the dashboard's key bindings
ToggleBypassCache ==
  /\ MoreToCome \/ InFlight
  /\ CanRun(thread)
  /\ bypassCache' = ~bypassCache
  /\ UNCHANGED <<index, corrupt, files, overrideMode, skipRemote, customMatchBy,
                 customOnBeforeRequest, now, deleted,
                 started, pc, req, existingMatch, res, emitted, obs>>
  /\ UNCHANGED ioVars

ToggleOverrideMode ==
  /\ MoreToCome
  /\ CanRun(thread)
  /\ overrideMode' = ~overrideMode
  /\ UNCHANGED <<index, corrupt, files, bypassCache, skipRemote, customMatchBy,
                 customOnBeforeRequest, now, deleted,
                 started, pc, req, existingMatch, res, emitted, obs>>
  /\ UNCHANGED ioVars

ToggleSkipRemote ==
  /\ MoreToCome
  /\ CanRun(thread)
  /\ skipRemote' = ~skipRemote
  /\ UNCHANGED <<index, corrupt, files, bypassCache, overrideMode, customMatchBy,
                 customOnBeforeRequest, now, deleted,
                 started, pc, req, existingMatch, res, emitted, obs>>
  /\ UNCHANGED ioVars

\* a side-car file is deleted out-of-band
DeleteFile(path) ==
  /\ MoreToCome \/ Sweeping
  /\ deleted < MaxDeletes
  /\ path \in DOMAIN files
  /\ files' = removeSync(path, files)
  /\ deleted' = deleted + 1
  /\ UNCHANGED <<index, corrupt, bypassCache, overrideMode, skipRemote, customMatchBy,
                 customOnBeforeRequest, now,
                 started, pc, req, existingMatch, res, emitted, obs>>
  /\ UNCHANGED ioVars

\* the response files no entry of the index names
OrphanFiles(cache, fs) ==
  {p \in DOMAIN fs :
     \A i \in 1..Len(cache) :
       /\ cache[i].responseHeaders # JStr(p)
       /\ cache[i].responseBody # JStr(p)}

\* OrphanFilesHandler.cleanFiles(): the orphan response files are removed
cleanFiles(cache, fs) == [p \in DOMAIN fs \ OrphanFiles(cache, fs) |-> fs[p]]

\* the dashboard's key binding 'c': orphan response files cleanup; with an
\* index file that does not parse the handler cannot tell which files are
\* orphans and removes none
CleanOrphanFiles ==
  /\ CanRun(thread)
  /\ files' = IF corrupt THEN files ELSE cleanFiles(index, files)
  /\ UNCHANGED <<index, corrupt, bypassCache, overrideMode, skipRemote, customMatchBy,
                 customOnBeforeRequest, now, deleted,
                 started, pc, req, existingMatch, res, emitted, obs>>
  /\ UNCHANGED ioVars

\* the index file is edited out-of-band: its text is broken, or mended
CorruptIndexFile ==
  /\ MoreToCome \/ InFlight
  /\ ~corrupt
  /\ corrupt' = TRUE
  /\ UNCHANGED <<index, files, bypassCache, overrideMode, skipRemote, customMatchBy,
                 customOnBeforeRequest, now, deleted,
                 started, pc, req, existingMatch, res, emitted, obs>>
  /\ UNCHANGED ioVars

RepairIndexFile ==
  /\ MoreToCome \/ InFlight
  /\ corrupt
  /\ corrupt' = FALSE
  /\ UNCHANGED <<index, files, bypassCache, overrideMode, skipRemote, customMatchBy,
                 customOnBeforeRequest, now, deleted,
                 started, pc, req, existingMatch, res, emitted, obs>>
  /\ UNCHANGED ioVars

Next ==
  \/ \E r \in ReqIds, q \in Requests : Receive(r, q)
  \/ \E r \in ReqIds, q \in Requests, path \in DOMAIN files : ReceiveRacing(r, q, path)
  \/ \E r \in ReqIds, reply \in UpstreamReplies, g \in Ids, t \in 0..MaxNow :
        FetchResolves(r, reply, g, t)
  \/ \E r \in ReqIds, reply \in UpstreamReplies : FetchRejectsStatus(r, reply)
  \/ \E r \in ReqIds : FetchFails(r)
  \/ ToggleBypassCache
  \/ ToggleOverrideMode
  \/ ToggleSkipRemote
  \/ CleanOrphanFiles
  \/ \E path \in DOMAIN files : DeleteFile(path)

Spec == Init /\ [][Next]_vars

SpecCustom == InitCustom /\ [][Next]_vars

SpecHook == InitHook /\ [][Next]_vars

\* ---- the read-modify-writes of the index, taken apart into read and write
NoPending == <<>>

\* what a save holds between its read of the index and its write
PendingSave(read, reply, generated, t) ==
  [read |-> read, reply |-> reply, generated |-> generated, now |-> t,
   seen |-> [index |-> <<>>, files |-> NoFiles], stored |-> <<>>, cached |-> <<>>,
   key |-> "", sweeps |-> 0, threw |-> FALSE]

\* what a lookup holds between a sweep's read of the index and its write: the
\* index and the files the getter found, the stored entry matchFn returned, the copy as far
\* as it is parsed, the key whose file is missing, the sweeps done before
PendingSweep(read, seen, stored, cached, key, sweeps, threw) ==
  [read |-> read, reply |-> NoReply, generated |-> "", now |-> 0,
   seen |-> seen, stored |-> <<stored>>, cached |-> <<cached>>, key |-> key,
   sweeps |-> sweeps, threw |-> threw]

\* parseResponseItem reaches cleanupRemovedEntries for the key
ItemIsMissing(stored, key, fs) ==
  LET x == stored[key] IN
  ~Falsy(x) /\ x.t = "string" /\ ~JSONparses(x.v) /\ ~existsSync(x, fs)

\* the getter up to the first sweep's read of the index: the body item is
\* parsed before the headers item is looked at.  A readFileSync that threw in
\* the try block has led to the catch block, where the default function's
\* match is materialized from its start.
LookupToSweep(request, cache, fs, custom, gone) ==
  LET raced  == RaceHits(request, cache, fs, custom, gone)
      fsNow  == IF raced THEN Without(gone, fs) ELSE fs
      stored == IF raced THEN DefaultMatchBy(request, cache).match[1]
                ELSE MatchWithFallback(custom, request, cache)[1]
      threw  == CallMatchFn(custom, request, cache).threw
      found  == [index |-> cache, files |-> Without(gone, fs)]
      st0    == [cached |-> stored, index |-> cache, files |-> fsNow, sweeps |-> 0,
                 gone |-> <<>>, raised |-> FALSE]
  IN  IF ItemIsMissing(stored, "responseBody", fsNow)
      THEN PendingSweep(cache, found, stored, stored, "responseBody", 0, threw)
      ELSE PendingSweep(cache, found, stored,
                        parseResponseItem(stored, st0, "responseBody").cached,
                        "responseHeaders", 0, threw)

\* a lookup without sweep: it reads the index and writes nothing
ReceiveNoSweep(r, q) ==
  /\ cachedRequest(q, index, files, customMatchBy, <<>>).sweeps = 0
  /\ Receive(r, q)

\* a lookup that is to sweep, up to cleanupRemovedEntries' read of the index,
\* with the file another process removes under the lookup
ReceiveSweepReadWhile(r, q, gone) ==
  /\ pc[r] = "idle"
  /\ r = started + 1
  /\ ~corrupt
  /\ CanRun(thread)
  /\ cachedRequest(q, index, files, customMatchBy, gone).sweeps > 0
  /\ started' = started + 1
  /\ deleted' = deleted + Len(gone)
  /\ files' = Without(gone, files)
  /\ req' = [req EXCEPT ![r] = q]
  /\ pc' = [pc EXCEPT ![r] = "sweeping"]
  /\ thread' = r
  /\ pending' = [pending EXCEPT ![r] =
                   <<LookupToSweep(q, index, files, customMatchBy, gone)>>]
  /\ UNCHANGED <<index, corrupt, bypassCache, overrideMode, skipRemote,
                 customMatchBy, customOnBeforeRequest, now, existingMatch,
                 res, emitted, obs>>

\* a lookup that is to sweep, up to cleanupRemovedEntries' read of the index
ReceiveSweepRead(r, q) == ReceiveSweepReadWhile(r, q, <<>>)

\* the same while another process removes a side-car file between the
\* lookup's existsSync and its readFileSync of that file
ReceiveRacingSweepRead(r, q, path) ==
  /\ deleted < MaxDeletes
  /\ RaceHits(q, index, files, customMatchBy, <<path>>)
  /\ ReceiveSweepReadWhile(r, q, <<path>>)

\* the sweep's filter, run on the index it read and the files of now, and its
\* write; then either the headers item is missing too and the next sweep reads
\* the index, or the rest of the getter and of the router middleware
ReceiveSweepWrite(r) ==
  /\ pc[r] = "sweeping"
  /\ LET p      == pending[r][1]
         stored == p.stored[1]
         s      == cleanupRemovedEntries(p.read, files)
         again  == p.key = "responseBody" /\ ItemIsMissing(stored, "responseHeaders", s.files)
         st     == [cached |-> p.cached[1], index |-> s.index, files |-> s.files,
                    sweeps |-> p.sweeps + 1, gone |-> <<>>, raised |-> FALSE]
         st2    == IF p.key = "responseBody"
                   THEN parseResponseItem(stored, st, "responseHeaders")
                   ELSE st
         look   == [hit     |-> <<[st2.cached EXCEPT !.timestamp = ToDate(stored.timestamp)]>>,
                    index   |-> st2.index, files |-> st2.files, matched |-> p.stored,
                    sweeps  |-> st2.sweeps, threw |-> p.threw, raised |-> FALSE]
     IN  IF again
         THEN /\ index' = s.index
              /\ files' = s.files
              /\ pending' = [pending EXCEPT ![r] =
                               <<[p EXCEPT !.read = s.index, !.key = "responseHeaders",
                                           !.sweeps = p.sweeps + 1]>>]
              /\ UNCHANGED <<thread, pc, req, existingMatch, res, emitted, obs>>
         ELSE /\ RouteLookup(r, req[r], p.seen, look)
              /\ thread' = 0
              /\ pending' = [pending EXCEPT ![r] = NoPending]
  /\ UNCHANGED <<corrupt, bypassCache, overrideMode, skipRemote, customMatchBy,
                 customOnBeforeRequest, now, deleted, started>>

\* the upstream replied while bypassCache is true: no save
ResolveNoSave(r, reply, generated, t) ==
  /\ ~SaveAllowed(bypassCache, obs[r].bypass)
  /\ FetchResolves(r, reply, generated, t)

\* the upstream replied: saveCacheRequest up to its read of the index, the
\* side-car files written
SaveRead(r, reply, generated, t) ==
  /\ pc[r] = "fetching"
  /\ CanRun(thread)
  /\ validateStatus(reply.status)
  /\ t >= now
  /\ ~corrupt
  /\ SaveAllowed(bypassCache, obs[r].bypass)
  /\ LET requestId == IF HasId(existingMatch[r]) THEN existingMatch[r][1].id ELSE generated
         b == createResponseBodyFile(req[r], reply, requestId, files)
         h == createResponseHeadersFile(req[r], reply, requestId, b.files)
     IN  files' = h.files
  /\ pc' = [pc EXCEPT ![r] = "saving"]
  /\ thread' = r
  /\ pending' = [pending EXCEPT ![r] =
                   <<PendingSave(index, reply, generated, t)>>]
  /\ UNCHANGED <<index, corrupt, bypassCache, overrideMode, skipRemote, customMatchBy,
                 customOnBeforeRequest, now, deleted, started, req, existingMatch,
                 res, emitted, obs>>

\* saveCacheRequest's write of newCache, made from the index it read, and the
\* response to the caller
SaveWrite(r) ==
  /\ pc[r] = "saving"
  /\ LET p == pending[r][1]
         s == saveCacheRequest(req[r], p.reply, existingMatch[r], p.read, files, p.now,
                               p.generated)
     IN  /\ index' = s.index
         /\ now' = p.now
         /\ res' = [res EXCEPT ![r] = sendResponse(p.reply)]
         /\ obs' = [obs EXCEPT ![r] =
                      [@ EXCEPT !.settled = "resolved", !.reply = p.reply,
                                !.bypassAtSave = bypassCache,
                                !.saves = 1,
                                !.savedWith = existingMatch[r],
                                !.savedAt = p.now,
                                !.lenBefore = Len(p.read),
                                !.lenAfter = Len(s.index)]]
  /\ pc' = [pc EXCEPT ![r] = "done"]
  /\ thread' = 0
  /\ pending' = [pending EXCEPT ![r] = NoPending]
  /\ UNCHANGED <<corrupt, files, bypassCache, overrideMode, skipRemote, customMatchBy,
                 customOnBeforeRequest, deleted, started, req, existingMatch, emitted>>

NextIO ==
  \/ \E r \in ReqIds, q \in Requests : ReceiveNoSweep(r, q)
  \/ \E r \in ReqIds, q \in Requests : ReceiveSweepRead(r, q)
  \/ \E r \in ReqIds, q \in Requests, path \in DOMAIN files :
        ReceiveRacingSweepRead(r, q, path)
  \/ \E r \in ReqIds : ReceiveSweepWrite(r)
  \/ \E r \in ReqIds, reply \in UpstreamReplies, g \in Ids, t \in 0..MaxNow :
        ResolveNoSave(r, reply, g, t)
  \/ \E r \in ReqIds, reply \in UpstreamReplies, g \in Ids, t \in 0..MaxNow :
        SaveRead(r, reply, g, t)
  \/ \E r \in ReqIds : SaveWrite(r)
  \/ \E r \in ReqIds, reply \in UpstreamReplies : FetchRejectsStatus(r, reply)
  \/ \E r \in ReqIds : FetchFails(r)
  \/ ToggleBypassCache
  \/ ToggleOverrideMode
  \/ ToggleSkipRemote
  \/ CleanOrphanFiles
  \/ \E path \in DOMAIN files : DeleteFile(path)

\* the server with every read-modify-write of the index in two steps
SpecIO == InitIO /\ [][NextIO]_vars

\* the server with an index file that is edited by hand while it runs
NextCorrupt ==
  \/ Next
  \/ CorruptIndexFile
  \/ RepairIndexFile
  \/ \E r \in ReqIds, q \in Requests : ReceiveCorrupt(r, q)
  \/ \E r \in ReqIds, reply \in UpstreamReplies, g \in Ids : SaveThrows(r, reply, g)

SpecCorrupt == Init /\ [][NextCorrupt]_vars

TypeOK ==
  /\ pc \in [ReqIds -> {"idle", "sweeping", "fetching", "saving", "done"}]
  /\ thread \in {0} \cup ReqIds
  /\ started \in 0..MaxRequests
  /\ now \in 0..MaxNow

\* ------------------------------------------------------------------- claims
Done(r) == pc[r] = "done"

\* the request's fetch was not rejected
NotRejected(r) == obs[r].settled # "rejected"

\* bypassCache had the same value at both of the request's reads
HeldConstant(r) == obs[r].fetches = 1 => obs[r].bypassAtSave = obs[r].bypass

\* the action of the priority table: [served, fetches, saves, withHit]
TableAction(skip, override, bypass, hit) ==
  IF skip
  THEN [served |-> IF hit THEN "cached" ELSE "notFound", fetches |-> 0, saves |-> 0,
        withHit |-> FALSE]
  ELSE IF override /\ ~bypass
  THEN [served |-> "fresh", fetches |-> 1, saves |-> 1, withHit |-> hit]
  ELSE IF hit /\ ~bypass
  THEN [served |-> "cached", fetches |-> 0, saves |-> 0, withHit |-> FALSE]
  ELSE [served |-> "fresh", fetches |-> 1, saves |-> IF bypass THEN 0 ELSE 1,
        withHit |-> FALSE]

\* what the request did, in the table's terms
ActionTaken(r) ==
  [served |-> res[r].kind, fetches |-> obs[r].fetches, saves |-> obs[r].saves,
   withHit |-> obs[r].savedWith # <<>>]

\* C1: a completed request whose modes were constant and whose fetch was not
\* rejected took exactly the action of the priority table for the modes and the
\* lookup result it read; a cached response is the lookup's entry, and the
\* existingMatch of an override save is the lookup's entry
C1_PriorityTable ==
  \A r \in ReqIds :
    (Done(r) /\ HeldConstant(r) /\ NotRejected(r)) =>
      /\ ActionTaken(r) =
           TableAction(obs[r].skip, obs[r].override, obs[r].bypass, obs[r].hit # <<>>)
      /\ res[r].kind = "cached" => res[r] = useCachedResponse(obs[r].hit[1])
      /\ obs[r].savedWith # <<>> => obs[r].savedWith = obs[r].hit

C1_Witness ==
  \E r \in ReqIds :
    /\ Done(r) /\ ~obs[r].skip /\ obs[r].override /\ ~obs[r].bypass
    /\ obs[r].hit # <<>> /\ obs[r].saves = 1 /\ obs[r].savedWith = obs[r].hit
    /\ res[r].kind = "fresh"

\* C2: a request that read skipRemote = true is complete at once, issued no
\* upstream fetch and made no save; it got the cached response on a hit and a
\* 404 on a miss
C2_SkipRemoteNoUpstream ==
  \A r \in ReqIds :
    (pc[r] # "idle" /\ obs[r].skip) =>
      /\ Done(r)
      /\ obs[r].fetches = 0
      /\ obs[r].saves = 0
      /\ obs[r].hit # <<>> => res[r] = useCachedResponse(obs[r].hit[1])
      /\ obs[r].hit = <<>> => res[r].kind = "notFound" /\ res[r].statusCode = 404

C2_Witness ==
  \E r \in ReqIds :
    /\ Done(r) /\ obs[r].skip /\ obs[r].override /\ ~obs[r].bypass
    /\ obs[r].hit = <<>> /\ res[r].statusCode = 404 /\ obs[r].fetches = 0

\* C3: no save runs while bypassCache is true, whatever the toggles did while
\* the fetch was pending
C3_NoSaveWhileBypass ==
  [][\A r \in ReqIds : obs'[r].saves > obs[r].saves => ~bypassCache]_vars

C3_Witness ==
  \E r \in ReqIds :
    /\ Done(r) /\ obs[r].settled = "resolved"
    /\ ~obs[r].bypass /\ obs[r].bypassAtSave /\ obs[r].saves = 0

\* C4: a save with an existingMatch does not lengthen the index; an override
\* request with a materialized hit, handled with no other request in flight,
\* leaves the index as long as it found it
C4_ReplaceKeepsLength ==
  \A r \in ReqIds :
    (obs[r].saves = 1 /\ obs[r].savedWith # <<>>) =>
      /\ obs[r].lenAfter <= obs[r].lenBefore
      /\ (obs[r].alone /\ obs[r].sweeps = 0 /\ started = r) =>
           Len(index) = Len(obs[r].seen)

C4_Witness ==
  \E r \in ReqIds :
    /\ obs[r].saves = 1 /\ obs[r].savedWith # <<>> /\ obs[r].branch = "fetchWithMatch"
    /\ obs[r].alone /\ obs[r].sweeps = 0 /\ started = r
    /\ Len(index) = 1

\* the step in which request r is received, and the one in which it saves
Received(r) == pc[r] = "idle" /\ pc'[r] # "idle"
Saved(r)    == obs'[r].saves > obs[r].saves

\* a field that names a side-car file
IsPath(x) == x.t = "string" /\ x.v # "" /\ ~JSONparses(x.v)

\* the entry a save of request r's capture is to leave in the index
CapturedEntry(r, id, rec) ==
  NewEntry(id, req[r], rec.reply,
           JStr(HeadersPath(req[r], id)),
           IF Falsy(rec.reply.data) THEN JUndefined ELSE JStr(BodyPath(req[r], id)),
           rec.savedAt)

\* C5: after a save with an existingMatch of id X the index holds exactly one
\* entry with id X, and it is the new capture
C5_ReplaceLeavesOneEntry ==
  [][\A r \in ReqIds :
       (Saved(r) /\ obs'[r].savedWith # <<>>) =>
         LET X  == obs'[r].savedWith[1].id
             at == {i \in 1..Len(index') : index'[i].id = X}
         IN  /\ Cardinality(at) = 1
             /\ \A i \in at : index'[i] = CapturedEntry(r, X, obs'[r])]_vars

\* C6: no two entries of the index have the same id
C6_UniqueIds ==
  \A i, j \in 1..Len(index) : index[i].id = index[j].id => i = j

\* C7: a lookup whose custom match function threw did not throw itself: it
\* returned the match of the default function on the same request and entries,
\* materialized, or none when the default function matched nothing, and the
\* router went on to one of its branches
C7_FallbackToDefault ==
  [][\A r \in ReqIds :
       (Received(r) /\ obs'[r].threw) =>
         LET m == DefaultMatchBy(obs'[r].received[1], obs'[r].seen).match IN
         /\ ~obs'[r].raised
         /\ obs'[r].branch # "catch"
         /\ obs'[r].matched = m
         /\ (obs'[r].hit = <<>>) <=> (m = <<>>)
         /\ m # <<>> => obs'[r].hit[1].id = m[1].id]_vars

\* C8: a lookup that selects an entry whose headers file is gone removes the
\* entry from the index and deletes the entry's body file
C8_SelfHealing ==
  [][\A r \in ReqIds :
       (/\ Received(r)
        /\ obs'[r].matched # <<>>
        /\ IsPath(obs'[r].matched[1].responseHeaders)
        /\ ~existsSync(obs'[r].matched[1].responseHeaders, files)) =>
         /\ \A i \in 1..Len(index') : index'[i] # obs'[r].matched[1]
         /\ ~existsSync(obs'[r].matched[1].responseBody, files')]_vars

C8_Witness ==
  \E r \in ReqIds :
    /\ deleted = 1 /\ obs[r].matched # <<>> /\ obs[r].sweeps = 1
    /\ IsPath(obs[r].matched[1].responseHeaders)
    /\ obs[r].hit[1].responseHeaders = obs[r].matched[1].responseHeaders
    /\ obs[r].hit[1].responseBody # obs[r].matched[1].responseBody
    /\ index = <<>>
    /\ ~existsSync(obs[r].matched[1].responseBody, files)

\* an empty upstream body and an absent responseBody are the same body
SameBody(x, y) == x = y \/ (Falsy(x) /\ Falsy(y))

\* C9: the lookup for R right after a save for R returns the capture: R's
\* method, url and body, the upstream's status, headers and body; and an inline
\* JSON string materializes to its parsed value
C9_RoundTrip ==
  [][\A r \in ReqIds :
       /\ Saved(r) =>
            LET look == cachedRequest(req[r], index', files', customMatchBy, <<>>) IN
            /\ look.hit # <<>>
            /\ look.hit[1].method = req[r].method
            /\ look.hit[1].url = req[r].url
            /\ look.hit[1].body = req[r].body
            /\ look.hit[1].code = obs'[r].reply.status
            /\ look.hit[1].responseHeaders = obs'[r].reply.headers
            /\ SameBody(look.hit[1].responseBody, obs'[r].reply.data)
       /\ (Received(r) /\ obs'[r].matched # <<>>) =>
            \A key \in {"responseHeaders", "responseBody"} :
              LET x == obs'[r].matched[1][key] IN
              (x.t = "string" /\ JSONparses(x.v)) => obs'[r].hit[1][key] = JSONparse(x.v)]_vars

\* C10: a non-2xx upstream reply is served to the caller, not the error
\* response, and is saved with its status when bypassCache is false
C10_Non2xxServedAndSaved ==
  \A r \in ReqIds :
    (Done(r) /\ obs[r].reply # NoReply /\ ~validateStatus(obs[r].reply.status)) =>
      /\ res[r].kind = "fresh"
      /\ ~obs[r].bypassAtSave =>
           /\ obs[r].saves = 1
           /\ \E i \in 1..Len(index) : index[i].code = obs[r].reply.status

\* the step in which request r's upstream fetch fails
FetchFailed(r) == obs[r].settled = "none" /\ obs'[r].settled = "rejected"

\* nothing but request r itself wrote to the index or the side-car files from
\* its reception on: it is the last request, no other request was in flight
\* with it, and it found no file for the orphan cleaner to remove
Undisturbed(r) ==
  /\ started = r
  /\ ~MoreToCome
  /\ obs[r].alone
  /\ OrphanFiles(obs[r].seen, obs[r].filesSeen) = {}

\* C11: a request whose upstream fetch fails emits one error event, is sent
\* the 500 error response, issues no further fetch and runs no save, and the
\* index and every side-car file are then as they were before the request
C11_FailedFetchLeavesStore ==
  [][\A r \in ReqIds :
       FetchFailed(r) =>
         /\ obs'[r].fetches = 1
         /\ Done(r)'
         /\ emitted'[r] = Append(emitted[r], "LOG_ERROR")
         /\ res'[r].kind = "error" /\ res'[r].statusCode = 500
         /\ obs'[r].saves = 0
         /\ Undisturbed(r) => index' = obs[r].seen /\ files' = obs[r].filesSeen]_vars

\* C12: a request whose onBeforeRequest hook threw still issued its one upstream
\* fetch, with the request as the router received it, did not take the error
\* path for it, and goes on (to the save) with the request as received
C12_HookThrowsOriginalRequest ==
  \A r \in ReqIds :
    obs[r].hookThrew =>
      /\ obs[r].fetches = 1
      /\ obs[r].sent = <<AxiosRequest(obs[r].received[1], obs[r].received[1])>>
      /\ req[r] = obs[r].received[1]
      /\ pc[r] = "fetching" => emitted[r][Len(emitted[r])] # "LOG_ERROR"

\* C13: a request received while the index file is not parseable JSON has an
\* error event emitted, is complete, and was sent the error response by the
\* router; the requests after it are handled
C13_CorruptIndexFailsRequest ==
  \A r \in ReqIds :
    obs[r].branch = "catch" =>
      /\ Done(r)
      /\ emitted[r] = <<"LOG_ERROR">>
      /\ res[r].kind = "error" /\ res[r].statusCode = 500

\* request r is between the read and the write of a read-modify-write
Between(r) == pending[r] # <<>>

\* C14: while a request is between the read and the write of a
\* read-modify-write of the index (a save's or a sweep's), no other request
\* takes a step, and the index is still what the operation read: no other
\* access to the index file falls between the read and the write
C14_ReadModifyWriteExclusive ==
  [][\A r \in ReqIds :
       Between(r) =>
         /\ pending[r][1].read = index
         /\ \A o \in ReqIds \ {r} : pc'[o] = pc[o] /\ ~Between(o)]_vars

C14_Witness ==
  \E r, o \in ReqIds :
    /\ pc[r] = "saving" /\ Between(r) /\ pc[o] = "fetching"
    /\ obs[o].alone = FALSE /\ existingMatch[r] = <<>> /\ existingMatch[o] = <<>>

\* C15: a lookup that selected an entry with a missing side-car file, and so
\* ran the sweep, returned none, and no unresolved path string is a field of
\* what it returned or of the response sent to the caller
C15_DesyncLookupReturnsNone ==
  \A r \in ReqIds :
    (obs[r].matched # <<>> /\ obs[r].sweeps > 0) =>
      /\ obs[r].hit = <<>>
      /\ ~IsPath(res[r].body)
      /\ ~IsPath(res[r].headers)

\* the entries a sweep is to keep: the headers file exists, and the body file
\* exists when the entry has one
SweepIsToKeep(item, fs) ==
  /\ existsSync(item.responseHeaders, fs)
  /\ item.responseBody # JUndefined => existsSync(item.responseBody, fs)

\* C16: a lookup that swept left in the index exactly the entries whose headers
\* file existed and whose body file, when they have one, existed, in their
\* order, entries saved without a body file included; no side-car file of a
\* dropped entry is left
C16_SweepKeepsAndDrops ==
  [][\A r \in ReqIds :
       (Received(r) /\ obs'[r].sweeps > 0) =>
         LET keep(item) == SweepIsToKeep(item, files) IN
         /\ index' = SelectSeq(index, keep)
         /\ \A i \in 1..Len(index) :
              ~keep(index[i]) =>
                /\ ~existsSync(index[i].responseHeaders, files')
                /\ ~existsSync(index[i].responseBody, files')]_vars

\* C17: a save that follows the fetch of a request whose lookup produced a hit
\* was given that hit as existingMatch and did not lengthen the index, whatever
\* the mode toggles did between the request's decision and the fetch's return
C17_HitPassedToSave ==
  \A r \in ReqIds :
    (obs[r].saves = 1 /\ obs[r].hit # <<>>) =>
      /\ obs[r].savedWith = obs[r].hit
      /\ obs[r].lenAfter <= obs[r].lenBefore

\* later is earlier with some entries removed and the others in their order
IsSubsequence(later, earlier) ==
  \E f \in [1..Len(later) -> 1..Len(earlier)] :
    /\ \A j \in 1..Len(later) : later[j] = earlier[f[j]]
    /\ \A j, k \in 1..Len(later) : j < k => f[j] < f[k]

\* C18: a save with an existingMatch changes at most one entry, the replaced
\* one, which stays at its position; a save without one appends its entry after
\* all the entries there were; a sweep only removes entries: so the surviving
\* entries stay in the order of their first capture
C18_OrderPreserved ==
  [][\A r \in ReqIds :
       /\ (Saved(r) /\ obs'[r].savedWith # <<>>) =>
            /\ Len(index') = Len(index)
            /\ Cardinality({i \in 1..Len(index) : index'[i] # index[i]}) <= 1
            /\ \A i \in 1..Len(index) : index'[i].id = index[i].id
       /\ (Saved(r) /\ obs'[r].savedWith = <<>>) =>
            /\ Len(index') = Len(index) + 1
            /\ SubSeq(index', 1, Len(index)) = index
       /\ Received(r) => IsSubsequence(index', index)]_vars

\* the warning events among the events of request r
Warnings(r) == {i \in 1..Len(emitted[r]) : emitted[r][i] = "LOG_WARN"}

\* C19: for every sweep a lookup ran, a warning event was emitted on the server
\* (next to the skipRemote warning, when the request read skipRemote = true)
C19_SweepWarningDelivered ==
  \A r \in ReqIds :
    obs[r].sweeps > 0 =>
      Cardinality(Warnings(r)) >= obs[r].sweeps + (IF obs[r].skip THEN 1 ELSE 0)

\* C20: called by a lookup with the request and the entries of the index, the
\* matchBy of the sample functions file does not throw and returns the first
\* entry in index order with the request's method and a url equal to the
\* request's segment by segment, '*' standing for any segment; none otherwise
C20_MatchByFirstMatch ==
  [][\A r \in ReqIds :
       (Received(r) /\ customMatchBy = "example" /\ Len(index) > 0) =>
         LET q    == obs'[r].received[1]
             out  == ExampleMatchBy(q, index)
             hits == {i \in 1..Len(index) : StoredEntryMatches(index[i], q)}
         IN  /\ ~out.threw
             /\ hits = {} => out.match = <<>>
             /\ hits # {} =>
                  out.match = <<index[CHOOSE i \in hits : \A j \in hits : i <= j]>>]_vars

\* C21: the status code sent with a freshly fetched response is the upstream
\* reply's status code, which is the code a replay of the entry saved for the
\* exchange sends
C21_FreshStatusMirrorsUpstream ==
  \A r \in ReqIds :
    res[r].kind = "fresh" =>
      /\ res[r].statusCode = obs[r].reply.status
      /\ obs[r].saves = 1 =>
           res[r].statusCode = useCachedResponse(CapturedEntry(r, "", obs[r])).statusCode

\* request r read all three modes false, at its decision and after its fetch,
\* its lookup found no entry and the upstream's reply was accepted
PlainCapture(r) ==
  /\ Done(r) /\ obs[r].settled = "resolved"
  /\ ~obs[r].skip /\ ~obs[r].override /\ ~obs[r].bypass /\ ~obs[r].bypassAtSave
  /\ obs[r].matched = <<>>

\* C22: after two overlapping requests with the same method and url, both
\* received on an index with no entry matching them and with all modes false,
\* the index holds exactly one entry matching the request, as it does after
\* handling them one after the other
C22_OverlappingCapturesOneEntry ==
  \A r, o \in ReqIds :
    (/\ r < o
     /\ PlainCapture(r) /\ PlainCapture(o)
     /\ ~obs[r].alone
     /\ req[r].method = req[o].method /\ req[r].url = req[o].url) =>
      Cardinality({i \in 1..Len(index) : StoredEntryMatches(index[i], req[r])}) = 1

\* C23: every entry a save writes or rewrites records the method, url and body
\* of the request as the router received it, whatever onBeforeRequest returned,
\* and so matches that request
C23_SaveRecordsIncomingRequest ==
  [][\A r \in ReqIds :
       Saved(r) =>
         \A i \in 1..Len(index') :
           (i > Len(index) \/ index'[i] # index[i]) =>
             LET q == obs'[r].received[1] IN
             /\ index'[i].method = q.method
             /\ index'[i].url = q.url
             /\ index'[i].body = q.body
             /\ StoredEntryMatches(index'[i], q)]_vars

\* the step in which request r's fetch settles and the request completes
Settled(r) == pc[r] = "fetching" /\ pc'[r] = "done"

\* C24: both steps of a request handled while bypassCache is true and
\* skipRemote is false, its reception and the settlement of its fetch, leave
\* the index and every side-car file unchanged and send no cached response,
\* whatever the state of the index and of the side-car files
C24_BypassLeavesStore ==
  [][\A r \in ReqIds :
       /\ (Received(r) /\ bypassCache /\ ~skipRemote) =>
            /\ index' = index /\ files' = files
            /\ pc'[r] = "fetching" /\ res'[r].kind # "cached"
       /\ (Settled(r) /\ bypassCache /\ obs[r].bypass /\ ~obs[r].skip) =>
            /\ index' = index /\ files' = files
            /\ res'[r].kind # "cached"]_vars

====
